---- MODULE Spec2Model ----
(***************************************************************************)
(* Retrieval-and-normalisation pipeline of the rehabilitation research     *)
(* assistant: PubMedScraper (scraper.py) and the /search route that calls  *)
(* it (app.py).                                                            *)
(*                                                                         *)
(* Conventions.  A Python str read from XML is a TLA+ string; a str that   *)
(* the code strips (form fields, HTML button text) is a sequence of        *)
(* one-character strings.  The result of Element.find is a sequence:       *)
(* <<>> when nothing is found, <<text>> for an element whose .text is      *)
(* text.  None stands for Python's None.                                   *)
(***************************************************************************)
EXTENDS Integers, Sequences, FiniteSets, TLC

VARIABLES request, pc, max_results, article_ids, articles, idx, wake, returned,
          raised, status, body, now, calls, unit

vars == <<request, pc, max_results, article_ids, articles, idx, wake, returned,
          raised, status, body, now, calls, unit>>

(***************************************************************************)
(* Bounds of the model                                                     *)
(***************************************************************************)
MaxIds == 2
MaxEntries == 2
MaxAuthors == 7
MaxClock == 500

(***************************************************************************)
(* Program constants                                                       *)
(***************************************************************************)
MAX_ARTICLES == 10
PacingMs == 500
AuthorLimit == 5
MinResults == 1
MaxResults == 20

PUBMED_BASE_URL == "https://pubmed.ncbi.nlm.nih.gov"

Threads == {1, 2}

None == "<None>"

Min(a, b) == IF a < b THEN a ELSE b
Max(a, b) == IF a > b THEN a ELSE b

\* str(x) as an f-string renders it
Str(x) == IF x = None THEN "None" ELSE x

\* truthiness of a str-or-None value
Truthy(x) == x # None /\ x # ""

NotFound == <<>>
Elem(text) == <<text>>

\* `e.text if e is not None else default`
TextOr(e, default) == IF e # NotFound THEN e[1] ELSE default

(***************************************************************************)
(* str.strip() on a sequence of characters                                 *)
(***************************************************************************)
Whitespace == {" ", "\t", "\n"}

RECURSIVE LStrip(_)
LStrip(s) == IF s # <<>> /\ Head(s) \in Whitespace THEN LStrip(Tail(s)) ELSE s

RECURSIVE RStrip(_)
RStrip(s) ==
    IF s # <<>> /\ s[Len(s)] \in Whitespace
    THEN RStrip(SubSeq(s, 1, Len(s) - 1)) ELSE s

Strip(s) == RStrip(LStrip(s))

(***************************************************************************)
(* sep.join(parts) for str parts                                           *)
(***************************************************************************)
RECURSIVE JoinStr(_, _)
JoinStr(sep, parts) ==
    IF parts = <<>> THEN ""
    ELSE IF Len(parts) = 1 THEN parts[1]
    ELSE parts[1] \o sep \o JoinStr(sep, Tail(parts))

\* ",".join(article_ids[1:])
RECURSIVE JoinIds_SkipFirst(_)
JoinIds_SkipFirst(ids) ==
    IF Len(ids) <= 2 THEN Tail(ids)
    ELSE <<ids[2], ",">> \o JoinIds_SkipFirst(Tail(ids))

\* ",".join(article_ids): the request parameter as a sequence of pieces,
\* each identifier one piece, "," between two neighbours
RECURSIVE JoinIds(_)
JoinIds(ids) ==
    IF ids = <<>> THEN <<>>
    ELSE IF Len(ids) = 1 THEN <<ids[1]>>
    ELSE <<ids[1], ",">> \o JoinIds(Tail(ids))

\* the merge forgotten
Update_Skipped(d, e) == d

\* article = extra
Update_Replaces(d, e) == e

\* d.update(e) on dicts
Update(d, e) ==
    [k \in (DOMAIN d) \cup (DOMAIN e) |-> IF k \in DOMAIN e THEN e[k] ELSE d[k]]

(***************************************************************************)
(* Outcome of a call: a returned value or an exception that propagates     *)
(***************************************************************************)
Ret(v) == [raised |-> "", value |-> v]
Raise(e) == [raised |-> e, value |-> <<>>]

(***************************************************************************)
(* XML Record Parser                                                       *)
(*                                                                         *)
(* A PubmedArticle element is a record                                     *)
(*   medline        whether .//MedlineCitation is found                    *)
(*   pmid, title, journal, year   result of medline.find(...)              *)
(*   abstract_parts the .text of each .//AbstractText, in document order   *)
(*   authors        for each .//Author, [last, first]: the results of      *)
(*                  find("LastName") and find("ForeName")                  *)
(***************************************************************************)
Take(s, n) == SubSeq(s, 1, Min(n, Len(s)))

RECURSIVE TruthyTexts(_)
TruthyTexts(parts) ==
    IF parts = <<>> THEN <<>>
    ELSE IF Truthy(Head(parts)) THEN <<Head(parts)>> \o TruthyTexts(Tail(parts))
    ELSE TruthyTexts(Tail(parts))

\* the loop over medline.findall(".//Author")
RECURSIVE CollectAuthors(_)
CollectAuthors(elems) ==
    IF elems = <<>> THEN <<>>
    ELSE LET author == Head(elems)
             last == author.last
             first == author.first
             rest == CollectAuthors(Tail(elems))
         IN IF last # NotFound /\ first # NotFound
            THEN <<Str(last[1]) \o ", " \o Str(first[1])>> \o rest
            ELSE IF last # NotFound
            THEN <<last[1]>> \o rest
            ELSE rest

\* authors[-5:]
LimitAuthors_Last(authors) ==
    SubSeq(authors, Max(1, Len(authors) - AuthorLimit + 1), Len(authors))

\* authors[:5]
LimitAuthors(authors) == Take(authors, AuthorLimit)

\* returns <<>> for None, <<dict>> for a dict
extract_article_data(article_elem) ==
    IF ~article_elem.medline THEN <<>>
    ELSE LET pmid == TextOr(article_elem.pmid, "Unknown")
             title == TextOr(article_elem.title, "No title available")
             abstract == IF article_elem.abstract_parts # <<>>
                         THEN JoinStr(" ", TruthyTexts(article_elem.abstract_parts))
                         ELSE "No abstract available."
             authors == CollectAuthors(article_elem.authors)
             journal == TextOr(article_elem.journal, "Unknown Journal")
             year == TextOr(article_elem.year, "N/A")
         IN << [pmid |-> pmid,
                title |-> title,
                abstract |-> abstract,
                authors |-> LimitAuthors(authors),
                journal |-> journal,
                year |-> year,
                url |-> "https://pubmed.ncbi.nlm.nih.gov/" \o Str(pmid) \o "/"] >>

\* the loop over root.findall(".//PubmedArticle")
RECURSIVE ParseEntries(_)
ParseEntries(entries) ==
    IF entries = <<>> THEN <<>>
    ELSE extract_article_data(Head(entries)) \o ParseEntries(Tail(entries))

\* ET.ParseError not caught
parse_xml_response_Unguarded(xml_text) ==
    IF ~xml_text.wellformed THEN Raise("ParseError")
    ELSE Ret(ParseEntries(xml_text.entries))

\* xml_text is [wellformed, entries]; ET.ParseError is caught
parse_xml_response(xml_text) ==
    IF ~xml_text.wellformed THEN Ret(<<>>)
    ELSE Ret(ParseEntries(xml_text.entries))

(***************************************************************************)
(* Search Resolver                                                         *)
(*                                                                         *)
(* The response to esearch is [kind, shape, idlist]:                       *)
(*   kind  "transport"  the request raised requests.RequestException       *)
(*                      (connection, timeout, HTTP status, invalid JSON)   *)
(*         "json"       response.json() returned a value of the shape      *)
(*   shape "not_object"            top-level value is not a dict           *)
(*         "no_esearchresult"      dict without "esearchresult"            *)
(*         "esearchresult_not_object"                                      *)
(*         "no_idlist"             esearchresult dict without "idlist"     *)
(*         "idlist"                idlist present, its value is idlist     *)
(* An idlist value is [kind, items]: "strlist" a list of str,              *)
(* "null" JSON null, "intlist" a non-empty list of numbers.                *)
(***************************************************************************)
StrList(items) == [kind |-> "strlist", items |-> items]
JsonNull == [kind |-> "null", items |-> <<>>]
IntList == [kind |-> "intlist", items |-> <<>>]

\* `if article_ids is None`
NoIds_OnlyNone(ids) == ids.kind = "null"

\* `not article_ids`
NoIds(ids) ==
    \/ ids.kind = "null"
    \/ ids.kind = "strlist" /\ ids.items = <<>>

\* the except clause missing
search_articles_Unguarded(resp) ==
    IF resp.kind = "transport" THEN Raise("RequestException")
    ELSE IF resp.shape = "not_object" THEN Raise("AttributeError")
    ELSE IF resp.shape = "no_esearchresult" THEN Ret(StrList(<<>>))
    ELSE IF resp.shape = "esearchresult_not_object" THEN Raise("AttributeError")
    ELSE IF resp.shape = "no_idlist" THEN Ret(StrList(<<>>))
    ELSE Ret(resp.idlist)

search_articles(resp) ==
    IF resp.kind = "transport" THEN Ret(StrList(<<>>))
    ELSE IF resp.shape = "not_object" THEN Raise("AttributeError")
    ELSE IF resp.shape = "no_esearchresult" THEN Ret(StrList(<<>>))
    ELSE IF resp.shape = "esearchresult_not_object" THEN Raise("AttributeError")
    ELSE IF resp.shape = "no_idlist" THEN Ret(StrList(<<>>))
    ELSE Ret(resp.idlist)

(***************************************************************************)
(* Detail Fetcher.  The response to efetch is [kind, xml].                 *)
(***************************************************************************)
\* whether the call gets as far as session.get
FetchIssuesRequest(ids) == ~NoIds(ids) /\ ids.kind = "strlist"

\* the except clause missing
fetch_article_details_Unguarded(ids, resp) ==
    IF NoIds(ids) THEN Ret(<<>>)
    ELSE IF ids.kind # "strlist" THEN Raise("TypeError")
    ELSE IF resp.kind = "transport" THEN Raise("RequestException")
    ELSE parse_xml_response(resp.xml)

fetch_article_details(ids, resp) ==
    IF NoIds(ids) THEN Ret(<<>>)
    ELSE IF ids.kind # "strlist" THEN Raise("TypeError")
    ELSE IF resp.kind = "transport" THEN Ret(<<>>)
    ELSE parse_xml_response(resp.xml)

(***************************************************************************)
(* Supplementary Page Extractor                                            *)
(*                                                                         *)
(* The response to the page request is [kind, keyword_section,             *)
(* mesh_section]; a section is the result of soup.find: <<>> or            *)
(* <<buttons>>, a button being [trigger, text] with trigger = it has       *)
(* class "keyword-actions-trigger".                                        *)
(***************************************************************************)
RECURSIVE ButtonTexts(_, _)
ButtonTexts(buttons, triggerOnly) ==
    IF buttons = <<>> THEN <<>>
    ELSE LET b == Head(buttons)
             text == Strip(b.text)
             rest == ButtonTexts(Tail(buttons), triggerOnly)
         IN IF (triggerOnly => b.trigger) /\ text # <<>>
            THEN <<text>> \o rest
            ELSE rest

page_url(pmid) == PUBMED_BASE_URL \o "/" \o Str(pmid) \o "/"

scrape_full_article_page(resp) ==
    IF resp.kind = "transport"
    THEN [keywords |-> <<>>, mesh_terms |-> <<>>]
    ELSE [keywords |-> IF resp.keyword_section # <<>>
                       THEN ButtonTexts(resp.keyword_section[1], TRUE)
                       ELSE <<>>,
          mesh_terms |-> IF resp.mesh_section # <<>>
                         THEN ButtonTexts(resp.mesh_section[1], FALSE)
                         ELSE <<>>]

(***************************************************************************)
(* Inputs: what the form, the three endpoints and a direct caller supply   *)
(***************************************************************************)
SeqsUpTo(S, n) == UNION {[1..k -> S] : k \in 0..n}

Ids == {"11", "22"}

SearchResp(kind, shape, idlist) == [kind |-> kind, shape |-> shape, idlist |-> idlist]

SearchTransportFailure == SearchResp("transport", "", JsonNull)

IdListValues == {StrList(s) : s \in SeqsUpTo(Ids, MaxIds)} \cup {JsonNull, IntList}

SearchResponses ==
    {SearchTransportFailure}
    \cup {SearchResp("json", sh, JsonNull) :
            sh \in {"not_object", "no_esearchresult",
                    "esearchresult_not_object", "no_idlist"}}
    \cup {SearchResp("json", "idlist", v) : v \in IdListValues}

Entry(medline, pmid, title, abstract_parts, authors, journal, year) ==
    [medline |-> medline, pmid |-> pmid, title |-> title,
     abstract_parts |-> abstract_parts, authors |-> authors,
     journal |-> journal, year |-> year]

Author(last, first) == [last |-> last, first |-> first]

AuthorSamples ==
    {Author(Elem("Smith"), Elem("John")),
     Author(Elem("Doe"), NotFound),
     Author(NotFound, Elem("Ann")),
     Author(Elem(None), Elem("Jane"))}

TwoAuthors == <<Author(Elem("Smith"), Elem("John")), Author(Elem("Doe"), Elem("Jane"))>>

FullEntry(id) ==
    Entry(TRUE, Elem(id), Elem("Effects"), <<"Background.", None, "Results.">>,
          TwoAuthors, Elem("Journal"), Elem("2024"))
BareEntry == Entry(TRUE, NotFound, NotFound, <<>>, <<>>, NotFound, NotFound)
NoMedlineEntry == Entry(FALSE, NotFound, NotFound, <<>>, <<>>, NotFound, NotFound)
EmptyTextEntry ==
    Entry(TRUE, Elem(None), Elem(None), <<None>>,
          <<Author(Elem(None), NotFound)>>, Elem(None), Elem(None))

PipelineEntries == {FullEntry("11"), BareEntry, NoMedlineEntry, EmptyTextEntry}

OptTexts(S) == {NotFound} \cup {Elem(x) : x \in S \cup {None}}

FieldVariantEntries ==
    {Entry(m, p, ti, ab, TwoAuthors, j, y) :
        m \in BOOLEAN, p \in OptTexts({"11"}), ti \in OptTexts({"Effects"}),
        ab \in {<<>>, <<None>>, <<"Background.">>, <<"Background.", None, "Results.">>},
        j \in OptTexts({"Journal"}), y \in OptTexts({"2024"})}

AuthorVariantEntries ==
    {Entry(TRUE, Elem("11"), Elem("Effects"), <<"Background.">>, a,
           Elem("Journal"), Elem("2024")) :
        a \in SeqsUpTo(AuthorSamples, MaxAuthors)}

UnitEntries == FieldVariantEntries \cup AuthorVariantEntries

Xml(wellformed, entries) == [wellformed |-> wellformed, entries |-> entries]
Malformed == Xml(FALSE, <<>>)

FetchResp(kind, xml) == [kind |-> kind, xml |-> xml]
FetchTransportFailure == FetchResp("transport", Malformed)

Documents == {Malformed} \cup {Xml(TRUE, es) : es \in SeqsUpTo(PipelineEntries, MaxEntries)}

FetchResponses == {FetchTransportFailure} \cup {FetchResp("body", x) : x \in Documents}

Button(trigger, text) == [trigger |-> trigger, text |-> text]

PageResp(kind, keyword_section, mesh_section) ==
    [kind |-> kind, keyword_section |-> keyword_section, mesh_section |-> mesh_section]
PageTransportFailure == PageResp("transport", <<>>, <<>>)
PlainPage == PageResp("html", <<>>, <<>>)
TaggedPage ==
    PageResp("html",
             << <<Button(TRUE, <<" ", "s", "t", " ">>), Button(FALSE, <<"x">>),
                  Button(TRUE, <<" ", "\n">>), Button(TRUE, <<"r">>)>> >>,
             << <<Button(FALSE, <<"P", " ", "T">>), Button(TRUE, <<>>)>> >>)

PageResponses == {PageTransportFailure, PlainPage, TaggedPage}

\* request.form.get("query", "")
Queries == {<<>>, <<" ", " ">>, <<" ", "s", " ", "r", "\n">>}

\* request.form.get("max_results", Config.MAX_ARTICLES, type=int): <<>> when
\* the field is absent or is not an int
MaxResultsInputs == {<<>>, <<0>>, <<25>>}

(***************************************************************************)
(* State                                                                   *)
(*   request[t]     the request handler t serves: [route, data]            *)
(*   pc[t]          where request handler t is: "idle", "search", "fetch", *)
(*                  "page", "sleep", "done"                                *)
(*   max_results[t] the clamped bound passed to get_research_data          *)
(*   article_ids[t] what search_articles returned                          *)
(*   articles[t]    the list fetch_article_details returned, updated in    *)
(*                  place by the enrichment loop                           *)
(*   idx[t]         position of the loop `for article in articles`         *)
(*   wake[t]        when the running time.sleep(0.5) ends                  *)
(*   returned[t]    <<>> until get_research_data returns, then <<list>>    *)
(*   raised[t]      the exception that left get_research_data, "" if none  *)
(*   status[t]      HTTP status of the response, 0 while in flight         *)
(*   body[t]        JSON body of the response                              *)
(*   now            wall clock, in ms                                      *)
(*   calls          every outbound request and pacing wait, in order       *)
(*   unit           a direct call of one component: [op, arg, ret]         *)
(***************************************************************************)
NoBody == [pending |-> TRUE]

NoRequest == [route |-> "", data |-> <<>>]

Request(route, data) == [route |-> route, data |-> data]

\* jsonify({"error": message})
ErrorBody(message) == [error |-> message]

\* what Flask answers when the view raises
InternalServerError == [error |-> "Internal Server Error"]

BodyFor(list) ==
    IF list = <<>>
    THEN ErrorBody("No articles found. Try a different search term.")
    ELSE [articles |-> list, count |-> Len(list)]

NoUnit == [op |-> "", arg |-> <<>>, ret |-> <<>>]

Call(t, kind, arg, resp) ==
    [t |-> t, kind |-> kind, arg |-> arg, at |-> now, resp |-> resp]

Init ==
    /\ request = [t \in Threads |-> NoRequest]
    /\ pc = [t \in Threads |-> "idle"]
    /\ max_results = [t \in Threads |-> 0]
    /\ article_ids = [t \in Threads |-> StrList(<<>>)]
    /\ articles = [t \in Threads |-> <<>>]
    /\ idx = [t \in Threads |-> 0]
    /\ wake = [t \in Threads |-> 0]
    /\ returned = [t \in Threads |-> <<>>]
    /\ raised = [t \in Threads |-> ""]
    /\ status = [t \in Threads |-> 0]
    /\ body = [t \in Threads |-> NoBody]
    /\ now = 0
    /\ calls = <<>>
    /\ unit = NoUnit

\* min(max(1, max_results), 20)
Clamp(m) == Min(Max(MinResults, m), MaxResults)

\* app.py search(): validation, then the call of get_research_data
search_route(t, queries, maxes) ==
    /\ pc[t] = "idle"
    /\ unit = NoUnit
    /\ \E q \in queries, m \in maxes :
         LET query == Strip(q)
             requested == IF m = <<>> THEN MAX_ARTICLES ELSE m[1]
         IN /\ request' = [request EXCEPT ![t] = Request("/search", <<q, m>>)]
            /\ IF query = <<>>
               THEN /\ status' = [status EXCEPT ![t] = 400]
                    /\ body' = [body EXCEPT ![t] = ErrorBody("Please enter a search query.")]
                    /\ pc' = [pc EXCEPT ![t] = "done"]
                    /\ UNCHANGED max_results
               ELSE /\ max_results' = [max_results EXCEPT ![t] = Clamp(requested)]
                    /\ pc' = [pc EXCEPT ![t] = "search"]
                    /\ UNCHANGED <<status, body>>
    /\ UNCHANGED <<article_ids, articles, idx, wake, returned, raised, now, calls, unit>>

\* the response of search() to what get_research_data returned
StatusFor(list) == IF list = <<>> THEN 404 ELSE 200

\* get_research_data: search_articles and the test `if not article_ids`
search_call(t, responses) ==
    /\ pc[t] = "search"
    /\ \E resp \in responses :
         LET out == search_articles(resp)
         IN /\ calls' = Append(calls, Call(t, "search", max_results[t], resp))
            /\ IF out.raised # ""
               THEN /\ raised' = [raised EXCEPT ![t] = out.raised]
                    /\ status' = [status EXCEPT ![t] = 500]
                    /\ body' = [body EXCEPT ![t] = InternalServerError]
                    /\ pc' = [pc EXCEPT ![t] = "done"]
                    /\ UNCHANGED <<article_ids, returned>>
               ELSE /\ article_ids' = [article_ids EXCEPT ![t] = out.value]
                    /\ IF NoIds(out.value)
                       THEN /\ returned' = [returned EXCEPT ![t] = << <<>> >>]
                            /\ status' = [status EXCEPT ![t] = StatusFor(<<>>)]
                            /\ body' = [body EXCEPT ![t] = BodyFor(<<>>)]
                            /\ pc' = [pc EXCEPT ![t] = "done"]
                       ELSE /\ pc' = [pc EXCEPT ![t] = "fetch"]
                            /\ UNCHANGED <<returned, status, body>>
                    /\ UNCHANGED raised
    /\ UNCHANGED <<request, max_results, articles, idx, wake, now, unit>>

\* get_research_data: fetch_article_details, and the loop entered or skipped
fetch_call(t, responses) ==
    /\ pc[t] = "fetch"
    /\ \E resp \in responses :
         LET ids == article_ids[t]
             out == fetch_article_details(ids, resp)
         IN /\ calls' = IF FetchIssuesRequest(ids)
                        THEN Append(calls, Call(t, "fetch", JoinIds(ids.items), resp))
                        ELSE calls
            /\ IF out.raised # ""
               THEN /\ raised' = [raised EXCEPT ![t] = out.raised]
                    /\ status' = [status EXCEPT ![t] = 500]
                    /\ body' = [body EXCEPT ![t] = InternalServerError]
                    /\ pc' = [pc EXCEPT ![t] = "done"]
                    /\ UNCHANGED <<articles, idx, returned>>
               ELSE /\ articles' = [articles EXCEPT ![t] = out.value]
                    /\ IF out.value = <<>>
                       THEN /\ returned' = [returned EXCEPT ![t] = << <<>> >>]
                            /\ status' = [status EXCEPT ![t] = StatusFor(<<>>)]
                            /\ body' = [body EXCEPT ![t] = BodyFor(<<>>)]
                            /\ pc' = [pc EXCEPT ![t] = "done"]
                            /\ UNCHANGED idx
                       ELSE /\ idx' = [idx EXCEPT ![t] = 1]
                            /\ pc' = [pc EXCEPT ![t] = "page"]
                            /\ UNCHANGED <<returned, status, body>>
                    /\ UNCHANGED raised
    /\ UNCHANGED <<request, max_results, article_ids, wake, now, unit>>

\* time.sleep(0.25)
SleepUntil_Half(start) == start + PacingMs \div 2

\* when the sleep that starts now is over
SleepUntil(start) == start + PacingMs

\* loop body: scrape_full_article_page, article.update, time.sleep begins
page_call(t, responses) ==
    /\ pc[t] = "page"
    /\ \E resp \in responses :
         LET article == articles[t][idx[t]]
             extra == scrape_full_article_page(resp)
         IN /\ calls' = calls \o <<Call(t, "page", page_url(article.pmid), resp),
                                   Call(t, "sleep", "", <<>>)>>
            /\ articles' = [articles EXCEPT ![t][idx[t]] = Update(article, extra)]
    /\ wake' = [wake EXCEPT ![t] = SleepUntil(now)]
    /\ pc' = [pc EXCEPT ![t] = "sleep"]
    /\ UNCHANGED <<request, max_results, article_ids, idx, returned, raised, status, body, now, unit>>

\* the loop stops at the first record whose page request failed
LoopHasNext_BreakOnFailure(t) ==
    /\ idx[t] < Len(articles[t])
    /\ LET mine == SelectSeq(calls, LAMBDA c : c.t = t /\ c.kind = "page")
       IN mine[Len(mine)].resp.kind # "transport"

\* the last element is never reached
LoopHasNext_SkipsLast(t) == idx[t] + 1 < Len(articles[t])

\* `for article in articles` has another element
LoopHasNext(t) == idx[t] < Len(articles[t])

\* time.sleep returns: next iteration, or `return articles`
sleep_done(t) ==
    /\ pc[t] = "sleep"
    /\ now >= wake[t]
    /\ IF LoopHasNext(t)
       THEN /\ idx' = [idx EXCEPT ![t] = idx[t] + 1]
            /\ pc' = [pc EXCEPT ![t] = "page"]
            /\ UNCHANGED <<returned, status, body>>
       ELSE /\ returned' = [returned EXCEPT ![t] = <<articles[t]>>]
            /\ status' = [status EXCEPT ![t] = StatusFor(articles[t])]
            /\ body' = [body EXCEPT ![t] = BodyFor(articles[t])]
            /\ pc' = [pc EXCEPT ![t] = "done"]
            /\ UNCHANGED idx
    /\ UNCHANGED <<request, max_results, article_ids, articles, wake, raised, now, calls, unit>>

\* time passes while a request is being handled; the time nobody waits for
\* is capped, the time a sleeper waits for is not
Tick ==
    /\ \E t \in Threads : pc[t] \notin {"idle", "done"}
    /\ \/ now < MaxClock
       \/ \E t \in Threads : pc[t] = "sleep" /\ now < wake[t]
    /\ now' = now + PacingMs \div 2
    /\ UNCHANGED <<request, pc, max_results, article_ids, articles, idx, wake, returned,
                   raised, status, body, calls, unit>>

(***************************************************************************)
(* Direct calls of the components, as the unit tests make them             *)
(***************************************************************************)
CanCallDirect == unit = NoUnit /\ \A t \in Threads : pc[t] = "idle"

DirectCall(op, arg, ret) ==
    /\ unit' = [op |-> op, arg |-> arg, ret |-> ret]
    /\ UNCHANGED <<request, pc, max_results, article_ids, articles, idx, wake, returned,
                   raised, status, body, now, calls>>

call_search_articles ==
    /\ CanCallDirect
    /\ \E resp \in SearchResponses :
         DirectCall("search_articles", resp, search_articles(resp))

call_fetch_article_details ==
    /\ CanCallDirect
    /\ \E ids \in IdListValues, resp \in FetchResponses :
         DirectCall("fetch_article_details", <<ids, resp>>,
                    fetch_article_details(ids, resp))

call_parse_xml_response ==
    /\ CanCallDirect
    /\ \E xml \in Documents :
         DirectCall("parse_xml_response", xml, parse_xml_response(xml))

call_extract_article_data ==
    /\ CanCallDirect
    /\ \E elem \in UnitEntries :
         DirectCall("extract_article_data", elem, extract_article_data(elem))

call_scrape_full_article_page ==
    /\ CanCallDirect
    /\ \E resp \in PageResponses :
         DirectCall("scrape_full_article_page", resp, scrape_full_article_page(resp))

(***************************************************************************)
(* One /search request at a time, or one direct call                       *)
(***************************************************************************)
Next ==
    \/ search_route(1, Queries, MaxResultsInputs)
    \/ search_call(1, SearchResponses)
    \/ fetch_call(1, FetchResponses)
    \/ page_call(1, PageResponses)
    \/ sleep_done(1)
    \/ Tick
    \/ call_search_articles
    \/ call_fetch_article_details
    \/ call_parse_xml_response
    \/ call_extract_article_data
    \/ call_scrape_full_article_page

Spec == Init /\ [][Next]_vars

(***************************************************************************)
(* Two /search requests handled by the threaded server at once, both on    *)
(* the scraper that create_app built                                       *)
(***************************************************************************)
ConcQueries == {<<"s">>}
ConcMaxResults == {<<>>}
ConcSearchResponses ==
    {SearchResp("json", "idlist", StrList(<<"11", "22">>)),
     SearchResp("json", "idlist", StrList(<<>>)),
     SearchTransportFailure}
ConcFetchResponses ==
    {FetchResp("body", Xml(TRUE, <<FullEntry("11"), FullEntry("22")>>))}
ConcPageResponses == {TaggedPage}

NextConc ==
    \/ \E t \in Threads : search_route(t, ConcQueries, ConcMaxResults)
    \/ \E t \in Threads : search_call(t, ConcSearchResponses)
    \/ \E t \in Threads : fetch_call(t, ConcFetchResponses)
    \/ \E t \in Threads : page_call(t, ConcPageResponses)
    \/ \E t \in Threads : sleep_done(t)
    \/ Tick

SpecConc == Init /\ [][NextConc]_vars

(***************************************************************************)
(* One /search request whose outbound calls all come back, by answer or    *)
(* by the 15 s timeout, and whose sleeps end as the clock advances         *)
(***************************************************************************)
NextLive ==
    \/ search_route(1, Queries, MaxResultsInputs)
    \/ search_call(1, SearchResponses)
    \/ fetch_call(1, FetchResponses)
    \/ page_call(1, PageResponses)
    \/ sleep_done(1)
    \/ Tick

SpecLive ==
    /\ Init
    /\ [][NextLive]_vars
    /\ WF_vars(search_call(1, SearchResponses))
    /\ WF_vars(fetch_call(1, FetchResponses))
    /\ WF_vars(page_call(1, PageResponses))
    /\ WF_vars(sleep_done(1))
    /\ WF_vars(Tick)

(***************************************************************************)
(* JSON routes: /analyze, /summarize, /compare                             *)
(*                                                                         *)
(* request.get_json() is [kind, articles, question, treatment_a,           *)
(* treatment_b]: kind "null" for None, "object" for a dict, "array" for a  *)
(* non-empty list.  A key of the dict is <<>> when absent and <<v>> when   *)
(* present; a text value v is [kind, text] with kind "str" (text a         *)
(* sequence of characters) or "null" (JSON null).                          *)
(***************************************************************************)
JsonStr(chars) == [kind |-> "str", text |-> chars]
JsonNone == [kind |-> "null", text |-> <<>>]

JsonObject(posted, question, treatment_a, treatment_b) ==
    [kind |-> "object", articles |-> posted, question |-> question,
     treatment_a |-> treatment_a, treatment_b |-> treatment_b]

NullBody ==
    [kind |-> "null", articles |-> <<>>, question |-> <<>>,
     treatment_a |-> <<>>, treatment_b |-> <<>>]

ArrayBody ==
    [kind |-> "array", articles |-> <<>>, question |-> <<>>,
     treatment_a |-> <<>>, treatment_b |-> <<>>]

\* `not data`
NoData(data) ==
    \/ data.kind = "null"
    \/ /\ data.kind = "object"
       /\ data.articles = <<>> /\ data.question = <<>>
       /\ data.treatment_a = <<>> /\ data.treatment_b = <<>>

\* data.get(key, default)
Get(field, default) == IF field = <<>> THEN default ELSE field[1]

\* data.get(key, "").strip()
GetStripped(field) ==
    LET v == Get(field, JsonStr(<<>>))
    IN IF v.kind = "str" THEN Ret(Strip(v.text)) ELSE Raise("AttributeError")

\* what a handler did: its status, its body, the exception that left it
\* and the analyzer call it made (<<>> for none)
Rejected(message) ==
    [status |-> 400, body |-> ErrorBody(message), raised |-> "", call |-> <<>>]

Crashed(e) ==
    [status |-> 500, body |-> InternalServerError, raised |-> e, call |-> <<>>]

Answered(json, method, arg) ==
    [status |-> 200, body |-> json, raised |-> "",
     call |-> <<[kind |-> method, arg |-> arg]>>]

analyze(data, reply) ==
    IF NoData(data) THEN Rejected("Invalid request body.")
    ELSE IF data.kind # "object" THEN Crashed("AttributeError")
    ELSE LET posted == Get(data.articles, <<>>)
             question == GetStripped(data.question)
         IN IF question.raised # "" THEN Crashed(question.raised)
            ELSE IF posted = <<>> THEN Rejected("No articles provided.")
            ELSE IF question.value = <<>> THEN Rejected("Please enter a question.")
            ELSE Answered([analysis |-> reply], "analyze_research",
                          <<posted, question.value>>)

summarize(data, reply) ==
    IF NoData(data) THEN Rejected("Invalid request body.")
    ELSE IF data.kind # "object" THEN Crashed("AttributeError")
    ELSE LET posted == Get(data.articles, <<>>)
         IN IF posted = <<>> THEN Rejected("No articles provided.")
            ELSE Answered([summary |-> reply], "summarize_articles", <<posted>>)

compare(data, reply) ==
    IF NoData(data) THEN Rejected("Invalid request body.")
    ELSE IF data.kind # "object" THEN Crashed("AttributeError")
    ELSE LET posted == Get(data.articles, <<>>)
             treatment_a == GetStripped(data.treatment_a)
             treatment_b == IF treatment_a.raised # "" THEN treatment_a
                            ELSE GetStripped(data.treatment_b)
         IN IF treatment_b.raised # "" THEN Crashed(treatment_b.raised)
            ELSE IF posted = <<>> THEN Rejected("No articles provided.")
            ELSE IF treatment_a.value = <<>> \/ treatment_b.value = <<>>
                 THEN Rejected("Please provide both treatments to compare.")
            ELSE Answered([comparison |-> reply], "compare_treatments",
                          <<posted, treatment_a.value, treatment_b.value>>)

\* the handler of a JSON route runs from the request to the response
Respond(t, route, data, reply, out) ==
    /\ request' = [request EXCEPT ![t] = Request(route, data)]
    /\ status' = [status EXCEPT ![t] = out.status]
    /\ body' = [body EXCEPT ![t] = out.body]
    /\ raised' = [raised EXCEPT ![t] = out.raised]
    /\ calls' = IF out.call = <<>> THEN calls
                ELSE Append(calls, Call(t, out.call[1].kind, out.call[1].arg, reply))
    /\ pc' = [pc EXCEPT ![t] = "done"]
    /\ UNCHANGED <<max_results, article_ids, articles, idx, wake, returned, now, unit>>

analyze_route(t, bodies, replies) ==
    /\ pc[t] = "idle"
    /\ unit = NoUnit
    /\ \E data \in bodies, reply \in replies :
         Respond(t, "/analyze", data, reply, analyze(data, reply))

summarize_route(t, bodies, replies) ==
    /\ pc[t] = "idle"
    /\ unit = NoUnit
    /\ \E data \in bodies, reply \in replies :
         Respond(t, "/summarize", data, reply, summarize(data, reply))

compare_route(t, bodies, replies) ==
    /\ pc[t] = "idle"
    /\ unit = NoUnit
    /\ \E data \in bodies, reply \in replies :
         Respond(t, "/compare", data, reply, compare(data, reply))

\* one article as the client posts it back
PostedArticle == [pmid |-> "11", title |-> "T", abstract |-> "A"]

ArticlesValues == {<<>>, << <<>> >>, << <<PostedArticle>> >>}

TextValues ==
    {<<>>, <<JsonStr(<<>>)>>, <<JsonStr(<<" ", "\n">>)>>,
     <<JsonStr(<<" ", "P", "T">>)>>, <<JsonNone>>}

JsonBodies ==
    {NullBody, ArrayBody} \cup
    {JsonObject(a, q, ta, tb) :
        a \in ArticlesValues, q \in TextValues, ta \in TextValues, tb \in TextValues}

\* what the analyzer returns: the model's text or its own error text
AnalyzerReplies == {"text", "Error communicating with AI service"}

(***************************************************************************)
(* All four routes of the application, one request                         *)
(***************************************************************************)
NextRoutes ==
    \/ search_route(1, Queries, MaxResultsInputs)
    \/ search_call(1, ConcSearchResponses)
    \/ fetch_call(1, ConcFetchResponses)
    \/ page_call(1, ConcPageResponses)
    \/ sleep_done(1)
    \/ Tick
    \/ analyze_route(1, JsonBodies, AnalyzerReplies)
    \/ summarize_route(1, JsonBodies, AnalyzerReplies)
    \/ compare_route(1, JsonBodies, AnalyzerReplies)

SpecRoutes == Init /\ [][NextRoutes]_vars

TypeOK ==
    /\ \A t \in Threads : pc[t] \in {"idle", "search", "fetch", "page", "sleep", "done"}
    /\ \A t \in Threads : status[t] \in {0, 200, 400, 404, 500}
    /\ \A t \in Threads :
         request[t].route \in {"", "/search", "/analyze", "/summarize", "/compare"}

(***************************************************************************)
(* Properties                                                              *)
(***************************************************************************)
\* get_research_data was called by handler t and is over
Ended(t) == pc[t] = "done" /\ status[t] # 400

\* the outbound calls of one kind that handler t made, in order
CallsOf(t, kind) == SelectSeq(calls, LAMBDA c : c.t = t /\ c.kind = kind)

\* everything handler t did on the network or the clock, in order
TraceOf(t) == SelectSeq(calls, LAMBDA c : c.t = t)

\* C1: get_research_data never raises to its caller: whatever the search,
\* fetch and page calls answer, the invocation ends by returning a list.
C1_NeverRaises ==
    \A t \in Threads :
        Ended(t) => raised[t] = "" /\ returned[t] # <<>>

\* C2: the number of records returned is at most the bound and at most the
\* number of identifiers search_articles returned.
C2_CountBounded ==
    \A t \in Threads :
        (Ended(t) /\ returned[t] # <<>>) =>
            /\ Len(returned[t][1]) <= max_results[t]
            /\ Len(returned[t][1]) <= Len(article_ids[t].items)

NineAttributes ==
    {"pmid", "title", "abstract", "authors", "journal", "year", "url",
     "keywords", "mesh_terms"}

TextAttributes == {"pmid", "title", "abstract", "journal", "year", "url"}

\* C3: every record the pipeline returns has all nine attributes, none of
\* them null, and a pmid that is neither null nor empty.
C3_AllAttributesPopulated ==
    \A t \in Threads :
        (Ended(t) /\ returned[t] # <<>>) =>
            \A i \in 1..Len(returned[t][1]) :
                LET r == returned[t][1][i]
                IN /\ DOMAIN r = NineAttributes
                   /\ \A a \in TextAttributes : r[a] # None
                   /\ r.pmid # ""

\* what fetch_article_details returned to handler t, from its logged response
FetchedBy(t) == fetch_article_details(article_ids[t], CallsOf(t, "fetch")[1].resp).value

\* handler t had a page request fail at transport level
PageFailed(t) == \E i \in 1..Len(CallsOf(t, "page")) : CallsOf(t, "page")[i].resp.kind = "transport"

\* C4: a transport failure of the page request of record i does not abort
\* the invocation and does not drop record i, which is returned with empty
\* keywords and mesh_terms; the extractor still runs for every other record,
\* whose enrichment is what its own page yields.
C4_PageFailureIsolated ==
    \A t \in Threads :
        (Ended(t) /\ PageFailed(t)) =>
            /\ raised[t] = ""
            /\ returned[t] # <<>>
            /\ LET res == returned[t][1]
                   pages == CallsOf(t, "page")
                   fetched == FetchedBy(t)
               IN /\ Len(res) = Len(fetched)
                  /\ Len(pages) = Len(fetched)
                  /\ \A j \in 1..Len(res) :
                        /\ res[j].pmid = fetched[j].pmid
                        /\ pages[j].arg = page_url(fetched[j].pmid)
                        /\ {"keywords", "mesh_terms"} \subseteq DOMAIN res[j]
                        /\ IF pages[j].resp.kind = "transport"
                           THEN res[j].keywords = <<>> /\ res[j].mesh_terms = <<>>
                           ELSE /\ res[j].keywords = scrape_full_article_page(pages[j].resp).keywords
                                /\ res[j].mesh_terms = scrape_full_article_page(pages[j].resp).mesh_terms

\* the first page request failed, the second one found keywords, both
\* records came back
C4_Witness ==
    /\ Ended(1)
    /\ returned[1] # <<>>
    /\ Len(returned[1][1]) = 2
    /\ Len(CallsOf(1, "page")) = 2
    /\ CallsOf(1, "page")[1].resp.kind = "transport"
    /\ CallsOf(1, "page")[2].resp = TaggedPage
    /\ returned[1][1][1].keywords = <<>>
    /\ returned[1][1][2].keywords = << <<"s", "t">>, <<"r">> >>

\* the search answer yields no identifiers: transport failure, no idlist,
\* or an empty idlist
YieldsNoIds(resp) ==
    \/ resp.kind = "transport"
    \/ resp.kind = "json" /\ resp.shape = "no_idlist"
    \/ resp.kind = "json" /\ resp.shape = "idlist" /\ resp.idlist = StrList(<<>>)

\* C5: when the search yields no identifiers, get_research_data returns []
\* at once: the search request is the only thing the invocation ever did, no
\* fetch request, no page request, no pacing wait.
C5_NoIdsReturnsAtOnce ==
    \A t \in Threads :
        (CallsOf(t, "search") # <<>> /\ YieldsNoIds(CallsOf(t, "search")[1].resp)) =>
            /\ pc[t] = "done"
            /\ raised[t] = ""
            /\ returned[t] = << <<>> >>
            /\ Len(TraceOf(t)) = 1

C5_Witness ==
    /\ CallsOf(1, "search") # <<>>
    /\ CallsOf(1, "search")[1].resp.shape = "idlist"
    /\ CallsOf(1, "search")[1].resp.idlist = StrList(<<>>)
    /\ returned[1] = << <<>> >>

\* the identifiers a comma-joined request parameter carries, in order
IdsCarried(param) == [i \in 1..((Len(param) + 1) \div 2) |-> param[2 * i - 1]]

\* the search of handler t returned N >= 1 identifiers, N within the bound
ResolvedIds(t) ==
    /\ CallsOf(t, "search") # <<>>
    /\ CallsOf(t, "search")[1].resp.kind = "json"
    /\ CallsOf(t, "search")[1].resp.shape = "idlist"
    /\ CallsOf(t, "search")[1].resp.idlist.kind = "strlist"
    /\ Len(CallsOf(t, "search")[1].resp.idlist.items) >= 1
    /\ Len(CallsOf(t, "search")[1].resp.idlist.items) <= max_results[t]

\* C6: when the search returns N >= 1 identifiers (N within the bound), the
\* invocation issues exactly one fetch request, and it carries exactly those
\* N identifiers, each once, in the resolver's order.
C6_OneFetchOfAllIds ==
    \A t \in Threads :
        ResolvedIds(t) =>
            LET ids == CallsOf(t, "search")[1].resp.idlist.items
                fetches == CallsOf(t, "fetch")
            IN IF pc[t] = "fetch"
               THEN fetches = <<>>
               ELSE /\ Len(fetches) = 1
                    /\ Len(fetches[1].arg) = 2 * Len(ids) - 1
                    /\ IdsCarried(fetches[1].arg) = ids
                    /\ \A i \in 1..(Len(ids) - 1) : fetches[1].arg[2 * i] = ","

C6_Witness ==
    /\ ResolvedIds(1)
    /\ Ended(1)
    /\ Len(CallsOf(1, "fetch")) = 1
    /\ CallsOf(1, "fetch")[1].arg = <<"22", ",", "11">>

\* C7: under a transport failure of its outbound call each component
\* returns its degraded value and raises nothing: search_articles [],
\* fetch_article_details [], scrape_full_article_page empty keywords and
\* mesh_terms, get_research_data [].
C7_TransportFailureDegrades ==
    /\ (unit.op = "search_articles" /\ unit.arg.kind = "transport") =>
            unit.ret = [raised |-> "", value |-> StrList(<<>>)]
    /\ (unit.op = "fetch_article_details" /\ unit.arg[1].kind = "strlist"
            /\ unit.arg[2].kind = "transport") =>
            unit.ret = [raised |-> "", value |-> <<>>]
    /\ (unit.op = "scrape_full_article_page" /\ unit.arg.kind = "transport") =>
            unit.ret = [keywords |-> <<>>, mesh_terms |-> <<>>]
    /\ \A t \in Threads :
            (Ended(t) /\ \A i \in 1..Len(TraceOf(t)) :
                            TraceOf(t)[i].kind # "sleep" => TraceOf(t)[i].resp.kind = "transport") =>
                /\ raised[t] = ""
                /\ returned[t] = << <<>> >>

C7_Witness ==
    /\ unit.op = "fetch_article_details"
    /\ unit.arg[1] = StrList(<<"11", "22">>)
    /\ unit.arg[2].kind = "transport"
    /\ unit.ret.value = <<>>

\* positions of the page requests in the log
PageCallIndexes == {i \in 1..Len(calls) : calls[i].kind = "page"}

\* C8 as stated: at least one pacing interval elapses between any two page
\* requests of the process, those of overlapping /search requests included.
C8_ProcessWidePacing ==
    \A i, j \in PageCallIndexes :
        i < j => calls[j].at - calls[i].at >= PacingMs

\* C8 amended: at least one pacing interval elapses between any two page
\* requests of the same get_research_data invocation.
C8_PerInvocationPacing ==
    \A i, j \in PageCallIndexes :
        (i < j /\ calls[i].t = calls[j].t) => calls[j].at - calls[i].at >= PacingMs

\* handler 1 paced its two page requests while handler 2 issued one in between
C8_Witness ==
    \E i, j, k \in PageCallIndexes :
        /\ i < j /\ j < k
        /\ calls[i].t = 1 /\ calls[j].t = 2 /\ calls[k].t = 1
        /\ calls[j].at - calls[i].at < PacingMs
        /\ calls[k].at - calls[i].at >= PacingMs

\* the source authors that have a LastName element
HasLastName(author) == author.last # NotFound

\* C9 as stated: authors has at most 5 entries and is the first min(5, k)
\* source authors, formatted, k being the number of source Author elements.
C9_FirstFiveOfAllAuthors ==
    (unit.op = "extract_article_data" /\ unit.ret # <<>>) =>
        LET source == unit.arg.authors
            authors == unit.ret[1].authors
        IN /\ Len(authors) <= 5
           /\ Len(authors) = Min(5, Len(source))
           /\ \A i \in 1..Len(authors) :
                /\ HasLastName(source[i])
                /\ authors[i] = IF source[i].first # NotFound
                                THEN Str(source[i].last[1]) \o ", " \o Str(source[i].first[1])
                                ELSE source[i].last[1]

\* C9 amended: authors has at most 5 entries and is the first min(5, k)
\* formatted authors in source order, k being the number of source Author
\* elements that have a LastName; the others are skipped.
C9_FirstFiveOfNamedAuthors ==
    (unit.op = "extract_article_data" /\ unit.ret # <<>>) =>
        LET named == SelectSeq(unit.arg.authors, HasLastName)
            authors == unit.ret[1].authors
        IN /\ Len(authors) <= 5
           /\ Len(authors) = Min(5, Len(named))
           /\ \A i \in 1..Len(authors) :
                authors[i] = IF named[i].first # NotFound
                             THEN Str(named[i].last[1]) \o ", " \o Str(named[i].first[1])
                             ELSE named[i].last[1]

\* seven source authors, one without LastName, six with: five are kept
C9_Witness ==
    /\ unit.op = "extract_article_data"
    /\ unit.ret # <<>>
    /\ Len(unit.arg.authors) = 7
    /\ Len(SelectSeq(unit.arg.authors, HasLastName)) = 6
    /\ ~HasLastName(unit.arg.authors[2])
    /\ unit.arg.authors[7] = Author(Elem("Doe"), NotFound)
    /\ Len(unit.ret[1].authors) = 5
    /\ unit.ret[1].authors[1] = "Smith, John"

\* C10: the parser returns [] for a document that is not well-formed and
\* raises nothing; so when the fetch succeeds at transport level with such a
\* body, get_research_data returns [] and issues no page request.
C10_MalformedXmlYieldsEmpty ==
    /\ (unit.op = "parse_xml_response" /\ ~unit.arg.wellformed) =>
            unit.ret = [raised |-> "", value |-> <<>>]
    /\ \A t \in Threads :
            (CallsOf(t, "fetch") # <<>>
                /\ CallsOf(t, "fetch")[1].resp.kind = "body"
                /\ ~CallsOf(t, "fetch")[1].resp.xml.wellformed) =>
                /\ pc[t] = "done"
                /\ raised[t] = ""
                /\ returned[t] = << <<>> >>
                /\ CallsOf(t, "page") = <<>>

C10_Witness ==
    /\ CallsOf(1, "fetch") # <<>>
    /\ CallsOf(1, "fetch")[1].resp = FetchResp("body", Malformed)
    /\ returned[1] = << <<>> >>
    /\ status[1] = 404

\* C11: the list one get_research_data invocation returns holds no two
\* records with the same pmid.
C11_NoDuplicatePmids ==
    \A t \in Threads :
        (Ended(t) /\ returned[t] # <<>>) =>
            \A i, j \in 1..Len(returned[t][1]) :
                i < j => returned[t][1][i].pmid # returned[t][1][j].pmid

\* the outbound calls of handler t so far are: the search, then the fetch,
\* then for each record enriched so far, in list order, the request of its
\* own page followed by a pacing wait
OrderedTrace(t) ==
    LET trace == TraceOf(t)
        n == Len(trace)
    IN /\ n >= 1 => trace[1].kind = "search"
       /\ n >= 2 => trace[2].kind = "fetch"
       /\ \A k \in 3..n :
            trace[k].kind = IF k % 2 = 1 THEN "page" ELSE "sleep"
       /\ \A k \in 3..n :
            k % 2 = 1 =>
                /\ (k - 1) \div 2 <= Len(FetchedBy(t))
                /\ trace[k].arg = page_url(FetchedBy(t)[(k - 1) \div 2].pmid)

\* C14: within one invocation the outbound calls are one search, then at
\* most one fetch, then one page request per fetched record, one after the
\* other in list order, each for that record's own pmid, with a pacing wait
\* after each; no page request precedes the fetch.
C14_CallOrder ==
    \A t \in Threads :
        /\ OrderedTrace(t)
        /\ pc[t] \in {"fetch", "page", "sleep"} => Len(CallsOf(t, "search")) = 1
        /\ Ended(t) => Len(CallsOf(t, "search")) = 1
        /\ pc[t] = "page" => Len(TraceOf(t)) = 2 * idx[t]
        /\ pc[t] = "sleep" => Len(TraceOf(t)) = 2 * idx[t] + 2
        /\ (Ended(t) /\ CallsOf(t, "fetch") # <<>> /\ raised[t] = "") =>
                Len(CallsOf(t, "page")) = Len(FetchedBy(t))

\* two records fetched; two page requests, each followed by a wait
C14_Witness ==
    /\ Ended(1)
    /\ Len(TraceOf(1)) = 6
    /\ Len(FetchedBy(1)) = 2
    /\ TraceOf(1)[3].arg = page_url("11")
    /\ TraceOf(1)[5].arg = page_url("Unknown")
    /\ TraceOf(1)[5].at - TraceOf(1)[3].at >= PacingMs

SevenParsed == {"pmid", "title", "abstract", "authors", "journal", "year", "url"}

\* C16: the returned list has the length and order of the list
\* fetch_article_details returned; the merge leaves the seven parsed fields
\* of every record as they were and only sets keywords and mesh_terms; url
\* is the page address of the record's pmid.
C16_EnrichmentOnlyAdds ==
    \A t \in Threads :
        (Ended(t) /\ returned[t] # <<>> /\ CallsOf(t, "fetch") # <<>>) =>
            LET res == returned[t][1]
                fetched == FetchedBy(t)
            IN /\ Len(res) = Len(fetched)
               /\ \A j \in 1..Len(res) :
                    /\ DOMAIN res[j] = SevenParsed \cup {"keywords", "mesh_terms"}
                    /\ \A a \in SevenParsed : res[j][a] = fetched[j][a]
                    /\ res[j].url = page_url(res[j].pmid)

C16_Witness ==
    /\ Ended(1)
    /\ returned[1] # <<>>
    /\ Len(returned[1][1]) = 2
    /\ returned[1][1][1].pmid = "Unknown"
    /\ returned[1][1][2].pmid = "11"
    /\ returned[1][1][2].authors = <<"Smith, John", "Doe, Jane">>
    /\ returned[1][1][2].mesh_terms = << <<"P", " ", "T">> >>
    /\ returned[1][1][2].url = "https://pubmed.ncbi.nlm.nih.gov/11/"

\* handler t made no call twice and no page request beyond its records
NoRetry(t) ==
    /\ Len(CallsOf(t, "search")) <= 1
    /\ Len(CallsOf(t, "fetch")) <= 1
    /\ CallsOf(t, "page") # <<>> => Len(CallsOf(t, "page")) <= Len(FetchedBy(t))

\* when handler t is over, every fetched record had its page requested
AllRecordsVisited(t) ==
    (Ended(t) /\ raised[t] = "" /\ CallsOf(t, "fetch") # <<>>) =>
        Len(CallsOf(t, "page")) = Len(FetchedBy(t))

\* C15: every invocation of get_research_data ends, given that each
\* outbound call comes back; it makes at most one search call, one fetch
\* call and one page call per fetched record, retries nothing, and a
\* failing call does not keep the remaining records from being visited.
C15_Terminates ==
    /\ [](\A t \in Threads : NoRetry(t) /\ AllRecordsVisited(t))
    /\ \A t \in Threads : (pc[t] = "search") ~> (pc[t] = "done")

\* an invocation that ended after both of its page requests failed
C15_Witness ==
    /\ Ended(1)
    /\ raised[1] = ""
    /\ Len(CallsOf(1, "page")) = 2
    /\ CallsOf(1, "page")[1].resp.kind = "transport"
    /\ CallsOf(1, "page")[2].resp.kind = "transport"
    /\ now >= 2 * PacingMs

\* the search request of handler t failed at transport level
SearchFailed(t) ==
    /\ CallsOf(t, "search") # <<>>
    /\ CallsOf(t, "search")[1].resp.kind = "transport"

\* the search of handler t succeeded and found nothing
SearchFoundNothing(t) ==
    /\ CallsOf(t, "search") # <<>>
    /\ CallsOf(t, "search")[1].resp.kind = "json"
    /\ CallsOf(t, "search")[1].resp.shape = "idlist"
    /\ CallsOf(t, "search")[1].resp.idlist = StrList(<<>>)

\* C12: for the same query and bound, a run whose search fails at transport
\* level and a run whose search succeeds with an empty idlist give the same
\* return value of get_research_data, the empty list, and the same /search
\* response, 404 with the same error body.
C12_ErrorLooksLikeNoResult ==
    \A t, u \in Threads :
        (SearchFailed(t) /\ SearchFoundNothing(u) /\ max_results[t] = max_results[u]) =>
            /\ raised[t] = "" /\ raised[u] = ""
            /\ returned[t] = << <<>> >>
            /\ returned[u] = returned[t]
            /\ status[t] = 404
            /\ status[u] = status[t]
            /\ body[t] = [error |-> "No articles found. Try a different search term."]
            /\ body[u] = body[t]

C12_Witness ==
    /\ SearchFailed(1)
    /\ SearchFoundNothing(2)
    /\ max_results[1] = max_results[2]
    /\ status[1] = 404
    /\ status[2] = 404
    /\ body[1] = body[2]

\* a key that is absent or holds only whitespace
Blank(field) ==
    \/ field = <<>>
    \/ /\ field[1].kind = "str"
       /\ \A i \in 1..Len(field[1].text) : field[1].text[i] \in Whitespace

BodyMissing(data) == data.kind = "null"

ArticlesEmpty(data) ==
    data.kind = "object" /\ (data.articles = <<>> \/ data.articles = << <<>> >>)

\* the inputs the claim lists, route by route
InvalidInput(req) ==
    \/ /\ req.route = "/search"
       /\ \A i \in 1..Len(req.data[1]) : req.data[1][i] \in Whitespace
    \/ /\ req.route = "/analyze"
       /\ \/ BodyMissing(req.data)
          \/ ArticlesEmpty(req.data)
          \/ req.data.kind = "object" /\ Blank(req.data.question)
    \/ /\ req.route = "/summarize"
       /\ (BodyMissing(req.data) \/ ArticlesEmpty(req.data))
    \/ /\ req.route = "/compare"
       /\ \/ BodyMissing(req.data)
          \/ ArticlesEmpty(req.data)
          \/ /\ req.data.kind = "object"
             /\ (Blank(req.data.treatment_a) \/ Blank(req.data.treatment_b))

\* C13: every route answers 400 to invalid input and has called neither the
\* scraper nor the analyzer: /search with an empty or whitespace-only query,
\* the JSON routes with a missing body, an empty articles list, a blank
\* question (/analyze) or a blank treatment (/compare).
C13_InvalidInputRejected ==
    \A t \in Threads :
        (pc[t] = "done" /\ InvalidInput(request[t])) =>
            status[t] = 400 /\ TraceOf(t) = <<>>

\* the half of C13 about the collaborators alone: invalid input never
\* reaches the scraper or the analyzer
NoCollaboratorOnInvalidInput ==
    \A t \in Threads :
        InvalidInput(request[t]) => TraceOf(t) = <<>>

\* an analyzer call carries a non-empty articles list and non-empty,
\* stripped texts
AnalyzerCallsWellFormed ==
    \A i \in 1..Len(calls) :
        calls[i].kind \in {"analyze_research", "summarize_articles", "compare_treatments"} =>
            /\ calls[i].arg[1] # <<>>
            /\ \A j \in 2..Len(calls[i].arg) :
                 calls[i].arg[j] # <<>> /\ Strip(calls[i].arg[j]) = calls[i].arg[j]

====
